---- MODULE Spec2Model ----
(***************************************************************************)
(* A model of xstream: splitStream (src/combine/splitStream.ts), splitPart *)
(* (the transform at example/index.ts:466-487) and the pipeline and async  *)
(* generator XStream builds from them (src/core/xstream.ts).               *)
(*                                                                         *)
(* A JavaScript string is a sequence of one-character strings, indexed     *)
(* from 1 here and from 0 in the source; indexOf and slice below keep the  *)
(* source's 0-based indices.                                               *)
(***************************************************************************)
EXTENDS Integers, Sequences, FiniteSets, TLC

\* Bounds of the model.
MaxLen == 5        \* longest input text fed to the pipeline
MaxPartLen == 6    \* longest part fed to splitPart alone
MaxChunks == 3     \* longest input text fed to a session with callbacks and a signal
MaxLaterPulls == 1 \* most calls of next() made after a session ended

\* src/const: the defaults of the three separators.
DEFAULT_STREAM_SEPARATOR == <<"\n", "\n">>
DEFAULT_PART_SEPARATOR == <<"\n">>
DEFAULT_KV_SEPARATOR == <<":">>

\* An option the caller left out.
undefined == <<"undefined">>

\* The characters String.prototype.trim strips, as far as the inputs have them.
WhiteSpace == {" ", "\n", "\r", "\t"}

----------------------------------------------------------------------------
(* String primitives of the JavaScript runtime.                            *)

\* s.slice(from, to): the characters at 0-based positions from .. to-1.
slice(s, from, to) == SubSeq(s, from + 1, to)

\* s.slice(from)
sliceFrom(s, from) == SubSeq(s, from + 1, Len(s))

\* TRUE iff sep occurs in s at 0-based position i.
occursAt(s, sep, i) ==
    /\ i >= 0
    /\ i + Len(sep) <= Len(s)
    /\ slice(s, i, i + Len(sep)) = sep

\* s.indexOf(sep): the 0-based position of the first occurrence, or -1.
indexOf(s, sep) ==
    LET hits == {i \in 0..Len(s) : occursAt(s, sep, i)}
    IN  IF hits = {} THEN -1
        ELSE CHOOSE i \in hits : \A j \in hits : i <= j

\* s.split(sep) for a non-empty sep: cut at the occurrences of sep found
\* scanning left to right, each search resuming after the previous match.
RECURSIVE split(_, _)
split(s, sep) ==
    LET i == indexOf(s, sep)
    IN  IF i = -1 THEN <<s>>
        ELSE <<slice(s, 0, i)>> \o split(sliceFrom(s, i + Len(sep)), sep)

\* s.trim()
trim(s) ==
    LET keep == {i \in 1..Len(s) : s[i] \notin WhiteSpace}
    IN  IF keep = {} THEN <<>>
        ELSE SubSeq(s, CHOOSE i \in keep : \A j \in keep : i <= j,
                       CHOOSE i \in keep : \A j \in keep : i >= j)

----------------------------------------------------------------------------
(* The state.                                                              *)

VARIABLES
    options,   \* the options XStream was called with (separators only)
    input,     \* the whole decoded text the source will deliver
    rest,      \* the suffix of input not yet delivered
    buffer,    \* splitStream's buffer
    flushed,   \* splitStream.flush has run (the source closed)
    cutInside, \* history: some fragment ended strictly inside a delimiter
    cutInPart, \* history: some fragment ended strictly inside a part
    cut,       \* history: every piece transform cut off the buffer, in order
    parts,     \* every part splitStream has enqueued, in order
    partQ,     \* parts enqueued by splitStream, not yet taken by splitPart
    parsed,    \* every part splitPart has transformed, with its outcome
    outQ,      \* records enqueued by splitPart, not yet read
    iter,      \* where the async generator of processedStream stands
    reader,    \* the reader the generator took: "none", "locked", "released"
    yielded,   \* every value the generator has yielded, in order
    readableStream,  \* what the caller passed as options.readableStream
    transformStream, \* options.transformStream: "none" or "custom"
    throwing,  \* the callbacks of options that throw when invoked
    pipeline,  \* "none" before XStream built processedStream, then "built"
    thrown,    \* the exception the call of XStream threw, if any
    aborted,   \* signal.aborted
    storedError, \* the error processedStream is errored with, or "none"
    cancelled, \* processedStream was cancelled through its reader
    log,       \* the calls the generator made and the events around it, in order
    outcome,   \* how the consumer's latest next() or return() settled
    produced,  \* every value the custom transform has enqueued, in order
    second     \* a second generator of processedStream and its consumer's promise

vars == <<options, input, rest, buffer, flushed, cutInside, cutInPart, cut, parts, partQ, parsed, outQ,
          iter, reader, yielded, readableStream, transformStream, throwing, pipeline, thrown,
          aborted, storedError, cancelled, log, outcome, produced, second>>

splitterVars == <<buffer, flushed, cutInside, cutInPart, cut, parts, rest>>
iterVars == <<iter, reader, yielded>>
setupVars == <<readableStream, transformStream, throwing, pipeline, thrown>>
sessionVars == <<aborted, storedError, cancelled, log, outcome, produced>>

\* XStream's destructuring of options: a separator left out takes its default.
STREAM_SEPARATOR ==
    IF options.STREAM_SEPARATOR = undefined THEN DEFAULT_STREAM_SEPARATOR
    ELSE options.STREAM_SEPARATOR

PART_SEPARATOR ==
    IF options.PART_SEPARATOR = undefined THEN DEFAULT_PART_SEPARATOR
    ELSE options.PART_SEPARATOR

KV_SEPARATOR ==
    IF options.KV_SEPARATOR = undefined THEN DEFAULT_KV_SEPARATOR
    ELSE options.KV_SEPARATOR

\* processedStream is splitStream piped into splitPart: no transformStream
\* was supplied.
defaultStages == transformStream = "none"

\* The stages of processedStream still run: it is built, and neither errored
\* nor cancelled.
flowing == pipeline = "built" /\ storedError = "none" /\ ~cancelled

----------------------------------------------------------------------------
(* splitStream.                                                            *)

\* The 0-based positions where a delimiter starts when text is scanned from
\* position i, left to right, a delimiter never overlapping the one before.
RECURSIVE Delimiters(_, _, _)
Delimiters(text, sep, i) ==
    IF i + Len(sep) > Len(text) THEN {}
    ELSE IF occursAt(text, sep, i)
         THEN {i} \cup Delimiters(text, sep, i + Len(sep))
         ELSE Delimiters(text, sep, i + 1)

\* Total length of the first n pieces and of the separators that follow them.
RECURSIVE lengthBefore(_, _, _)
lengthBefore(pieces, n, sepLen) ==
    IF n = 0 THEN 0
    ELSE lengthBefore(pieces, n - 1, sepLen) + Len(pieces[n]) + sepLen

\* The pieces of a split, each with the position in input of its first
\* character; base is the position of the first character of the split text.
located(pieces, base, sepLen) ==
    [i \in 1..Len(pieces) |->
        [val |-> pieces[i], at |-> base + lengthBefore(pieces, i - 1, sepLen)]]

\* notBlank without the trim: only the empty part is skipped.
notBlank_NoTrim(part) == part # <<>>

\* The test both transform and flush apply before controller.enqueue.
notBlank(part) == trim(part) # <<>>

\* enqueue putting the new items ahead of the waiting ones.
enqueue_Front(queue, items) == items \o queue

\* controller.enqueue, for a run of items: they join the queue at its tail.
enqueue(queue, items) == queue \o items

\* transform splitting each chunk on its own, the buffer not prepended.
transform_NoCarry(buf, chunk, separator) ==
    LET pieces == split(chunk, separator)
    IN  [complete |-> SubSeq(pieces, 1, Len(pieces) - 1),
         buffer |-> pieces[Len(pieces)]]

\* transform cutting a part wherever a chunk ends: the last piece is
\* handed on with the complete ones instead of being kept back.
transform_NoHold(buf, chunk, separator) ==
    LET joined == buf \o chunk
        pieces == split(joined, separator)
    IN  [complete |-> pieces, buffer |-> <<>>]

\* transform leaving in the buffer all it has joined, the pieces it handed
\* on included.
transform_KeepJoined(buf, chunk, separator) ==
    LET joined == buf \o chunk
        pieces == split(joined, separator)
    IN  [complete |-> SubSeq(pieces, 1, Len(pieces) - 1),
         buffer |-> joined]

\* transform keeping the last piece without the whitespace around it.
transform_TrimBuffer(buf, chunk, separator) ==
    LET joined == buf \o chunk
        pieces == split(joined, separator)
    IN  [complete |-> SubSeq(pieces, 1, Len(pieces) - 1),
         buffer |-> trim(pieces[Len(pieces)])]

\* The body of transform(chunk, controller): the complete pieces it cuts off
\* the buffer (before the blank ones are skipped) and the buffer it leaves.
transform(buf, chunk, separator) ==
    LET joined == buf \o chunk
        pieces == split(joined, separator)
    IN  [complete |-> SubSeq(pieces, 1, Len(pieces) - 1),
         buffer |-> pieces[Len(pieces)]]

\* flush enqueueing the trimmed buffer.
flush_Trimmed(buf) == IF notBlank(buf) THEN <<trim(buf)>> ELSE <<>>

\* A flush that enqueues whatever the buffer holds.
flush_Always(buf) == <<buf>>

\* The body of flush(controller): what it enqueues.
flush(buf) == IF notBlank(buf) THEN <<buf>> ELSE <<>>

\* transform(chunk, controller), for the next k characters of the source.
splitStream_transform(k) ==
    /\ defaultStages
    /\ flowing
    /\ ~flushed
    /\ k \in 0..Len(rest)
    /\ LET chunk == SubSeq(rest, 1, k)
           result == transform(buffer, chunk, STREAM_SEPARATOR)
           base == Len(input) - Len(rest) - Len(buffer)
           complete == located(result.complete, base, Len(STREAM_SEPARATOR))
           enqueued == SelectSeq(complete, LAMBDA p : notBlank(p.val))
       IN  /\ buffer' = result.buffer
           /\ cut' = cut \o result.complete
           /\ parts' = parts \o enqueued
           /\ partQ' = enqueue(partQ, enqueued)
           /\ rest' = SubSeq(rest, k + 1, Len(rest))
           /\ cutInside' = (cutInside \/
                  \E d \in Delimiters(input, STREAM_SEPARATOR, 0) :
                      /\ d < Len(input) - Len(rest) + k
                      /\ Len(input) - Len(rest) + k < d + Len(STREAM_SEPARATOR))
           /\ cutInPart' = (cutInPart \/
                  \E a \in 0..Len(input) :
                      /\ a = 0 \/ a - Len(STREAM_SEPARATOR)
                                     \in Delimiters(input, STREAM_SEPARATOR, 0)
                      /\ a < Len(input) - Len(rest) + k
                      /\ \A d \in Delimiters(input, STREAM_SEPARATOR, 0) :
                             d >= a => Len(input) - Len(rest) + k < d
                      /\ Len(input) - Len(rest) + k < Len(input))
    /\ UNCHANGED <<options, input, flushed, parsed, outQ, iterVars,
                 setupVars, second, sessionVars>>

\* flush(controller): the source has delivered everything and closed.
splitStream_flush ==
    /\ defaultStages
    /\ flowing
    /\ ~flushed
    /\ rest = <<>>
    /\ LET enqueued == located(flush(buffer), Len(input) - Len(buffer),
                               Len(STREAM_SEPARATOR))
       IN  /\ parts' = parts \o enqueued
           /\ partQ' = enqueue(partQ, enqueued)
    /\ flushed' = TRUE
    /\ UNCHANGED <<options, input, rest, buffer, cutInside, cutInPart, cut, parsed, outQ, iterVars,
                 setupVars, second, sessionVars>>

----------------------------------------------------------------------------
(* splitPart.                                                              *)

\* {}
emptyEvent == [k \in {} |-> <<>>]

\* reducer without the test of the key: a blank key is a field name too.
reducer_NoKeyCheck(acc, line, kvSeparator) ==
    LET sepIndex == indexOf(line, kvSeparator)
        key == slice(line, 0, sepIndex)
        value == trim(sliceFrom(line, sepIndex + 1))
    IN  IF sepIndex = -1 THEN acc
        ELSE [k \in DOMAIN acc \cup {key} |-> IF k = key THEN value ELSE acc[k]]

\* reducer spreading acc last, { [key]: value, ...acc }: the first value of
\* a key stays.
reducer_FirstWins(acc, line, kvSeparator) ==
    LET sepIndex == indexOf(line, kvSeparator)
        key == slice(line, 0, sepIndex)
        value == trim(sliceFrom(line, sepIndex + 1))
    IN  IF sepIndex = -1 THEN acc
        ELSE IF trim(key) = <<>> THEN acc
        ELSE [k \in DOMAIN acc \cup {key} |->
                 IF k \in DOMAIN acc THEN acc[k] ELSE value]

\* The reducer of transform: one line folded into the event built so far.
reducer(acc, line, kvSeparator) ==
    LET sepIndex == indexOf(line, kvSeparator)
        key == slice(line, 0, sepIndex)
        value == trim(sliceFrom(line, sepIndex + 1))
    IN  IF sepIndex = -1 THEN acc
        ELSE IF trim(key) = <<>> THEN acc
        ELSE [k \in DOMAIN acc \cup {key} |-> IF k = key THEN value ELSE acc[k]]

\* lines.reduce(reducer, acc)
RECURSIVE reduce(_, _, _)
reduce(lines, acc, kvSeparator) ==
    IF lines = <<>> THEN acc
    ELSE reduce(Tail(lines), reducer(acc, Head(lines), kvSeparator), kvSeparator)

\* The event transform builds from one part.
sseEvent(partChunk, separator, kvSeparator) ==
    reduce(split(partChunk, separator), emptyEvent, kvSeparator)

\* The emptiness test left out: every part gives an event.
hasFields_Always(event) == TRUE

\* Object.keys(sseEvent).length > 0
hasFields(event) == DOMAIN event # {}

\* A strict parser: a line without a key-value delimiter, or with a blank
\* key, makes transform throw, and the error goes down to processedStream.
splitPart_transform_Strict ==
    /\ defaultStages
    /\ flowing
    /\ partQ # <<>>
    /\ LET partChunk == Head(partQ)
           lines == split(partChunk.val, PART_SEPARATOR)
           event == sseEvent(partChunk.val, PART_SEPARATOR, KV_SEPARATOR)
           emits == hasFields(event)
           out == [kind |-> "object", val |-> event, at |-> partChunk.at]
           malformed == \E i \in DOMAIN lines :
                            \/ indexOf(lines[i], KV_SEPARATOR) = -1
                            \/ trim(slice(lines[i], 0, indexOf(lines[i], KV_SEPARATOR))) = <<>>
       IN  /\ parsed' = Append(parsed, [part |-> partChunk.val, at |-> partChunk.at,
                                        emitted |-> emits /\ ~malformed, event |-> event])
           /\ outQ' = IF malformed THEN <<>>
                      ELSE IF emits THEN enqueue(outQ, <<out>>) ELSE outQ
           /\ storedError' = IF malformed THEN "malformed line" ELSE storedError
    /\ partQ' = Tail(partQ)
    /\ UNCHANGED <<options, input, splitterVars, iterVars, setupVars, second,
                   aborted, cancelled, log, outcome, produced>>

\* transform(partChunk, controller), for the part at the head of the queue.
splitPart_transform ==
    /\ defaultStages
    /\ flowing
    /\ partQ # <<>>
    /\ LET partChunk == Head(partQ)
           event == sseEvent(partChunk.val, PART_SEPARATOR, KV_SEPARATOR)
           emits == hasFields(event)
           out == [kind |-> "object", val |-> event, at |-> partChunk.at]
       IN  /\ parsed' = Append(parsed, [part |-> partChunk.val, at |-> partChunk.at,
                                        emitted |-> emits, event |-> event])
           /\ outQ' = IF emits THEN enqueue(outQ, <<out>>) ELSE outQ
    /\ partQ' = Tail(partQ)
    /\ UNCHANGED <<options, input, splitterVars, iterVars,
                 setupVars, second, sessionVars>>

----------------------------------------------------------------------------
(* XStream: the validation of options.readableStream, the pipeline, and    *)
(* the async generator installed on processedStream.                       *)

\* The lifecycle callbacks of options.
Callbacks == {"onSSEStart", "onSSEOutput", "onSSEComplete", "onSSEAbort", "onSSEError"}

\* No exception.
noException == [name |-> "none", message |-> <<>>]

\* new TypeError('options.readableStream ...'): the message, word by word.
invalidReadableStream ==
    [name |-> "TypeError",
     message |-> <<"options.readableStream", "must be an instance of", "ReadableStream">>]

\* The check made only once the stages are piped together.
XStream_LateCheck ==
    /\ pipeline = "none"
    /\ thrown = noException
    /\ pipeline' = "built"
    /\ thrown' = IF readableStream # "ReadableStream" THEN invalidReadableStream
                 ELSE noException
    /\ iter' = "suspendedStart"
    /\ UNCHANGED <<options, input, splitterVars, partQ, parsed, outQ, reader, yielded,
                   readableStream, transformStream, throwing, sessionVars, second>>

\* XStream(options, signal): the instanceof test, then the stages piped
\* together and the generator installed on processedStream.
XStream ==
    /\ pipeline = "none"
    /\ thrown = noException
    /\ IF readableStream # "ReadableStream"
       THEN /\ thrown' = invalidReadableStream
            /\ UNCHANGED <<pipeline, iter>>
       ELSE /\ pipeline' = "built"
            /\ iter' = "suspendedStart"
            /\ UNCHANGED thrown
    /\ UNCHANGED <<options, input, splitterVars, partQ, parsed, outQ, reader, yielded,
                   readableStream, transformStream, throwing, sessionVars, second>>

\* One entry of the log.
Event(ev, arg) == [ev |-> ev, arg |-> arg]

\* The error a throwing callback throws.
thrownBy(callback) ==
    CASE callback = "onSSEStart" -> "thrown by onSSEStart"
      [] callback = "onSSEOutput" -> "thrown by onSSEOutput"
      [] callback = "onSSEComplete" -> "thrown by onSSEComplete"
      [] callback = "onSSEAbort" -> "thrown by onSSEAbort"
      [] callback = "onSSEError" -> "thrown by onSSEError"

\* `if (value)`: the empty string and 0 are falsy, every object is truthy.
\* A number is held as its digits.
truthy(value) ==
    \/ value.kind = "object"
    \/ value.kind = "string" /\ value.val # <<>>
    \/ value.kind = "number" /\ value.val # <<"0">>

\* How a call of next() or return() settles.
notCalled == [type |-> "none", error |-> "none"]
pending == [type |-> "pending", error |-> "none"]
fulfilledValue == [type |-> "value", error |-> "none"]
fulfilledDone == [type |-> "done", error |-> "none"]
rejected(error) == [type |-> "throw", error |-> error]

\* A finally block that leaves the lock in place.
finally_NoRelease(calls) == [log |-> calls, reader |-> "locked"]

\* finally { reader.releaseLock(); }
finally(calls) ==
    [log |-> Append(calls, Event("releaseLock", "none")), reader |-> "released"]

\* A catch block that hands onSSEError a fresh error of its own.
catch_OwnError(calls, error) ==
    LET end == finally(Append(calls, Event("onSSEError", "caught")))
    IN  /\ log' = end.log
        /\ reader' = end.reader
        /\ iter' = "completed"
        /\ outcome' = IF "onSSEError" \in throwing THEN rejected(thrownBy("onSSEError"))
                      ELSE fulfilledDone

\* catch (error) { onSSEError?.(error) } and the finally block: the generator
\* ends, with done unless onSSEError threw.
catch(calls, error) ==
    LET end == finally(Append(calls, Event("onSSEError", error)))
    IN  /\ log' = end.log
        /\ reader' = end.reader
        /\ iter' = "completed"
        /\ outcome' = IF "onSSEError" \in throwing THEN rejected(thrownBy("onSSEError"))
                      ELSE fulfilledDone

\* break, and the finally block: the generator ends with done.
break(calls) ==
    LET end == finally(calls)
    IN  /\ log' = end.log
        /\ reader' = end.reader
        /\ iter' = "completed"
        /\ outcome' = fulfilledDone

\* The top of the loop, with queue what processedStream holds: the test of
\* signal.aborted, then either reader.cancel() or reader.read() is issued.
\* cancel() on a stream that is not errored closes it and empties its queue.
step(calls, queue) ==
    /\ reader' = "locked"
    /\ outcome' = pending
    /\ IF aborted
       THEN /\ log' = calls \o <<Event("signal.aborted", TRUE), Event("cancel", "none")>>
            /\ iter' = "awaitCancel"
            /\ outQ' = IF storedError = "none" THEN <<>> ELSE queue
            /\ cancelled' = (cancelled \/ storedError = "none")
       ELSE /\ log' = calls \o <<Event("signal.aborted", FALSE), Event("read", "none")>>
            /\ iter' = "awaitRead"
            /\ outQ' = queue
            /\ UNCHANGED cancelled

\* A first next() that leaves onSSEStart out.
iterator_start_NoStart ==
    /\ iter = "suspendedStart"
    /\ reader = "none"
    /\ step(Append(log, Event("getReader", "none")), outQ)
    /\ UNCHANGED <<options, input, splitterVars, partQ, parsed, yielded, setupVars, second,
                   aborted, storedError, produced>>

\* The consumer's first next(): getReader, onSSEStart?.(), and the first
\* turn of the loop.
iterator_start ==
    /\ iter = "suspendedStart"
    /\ reader = "none"
    /\ LET calls == log \o <<Event("getReader", "none"), Event("onSSEStart", "none")>>
       IN  IF "onSSEStart" \in throwing
           THEN /\ catch(calls, thrownBy("onSSEStart"))
                /\ UNCHANGED <<outQ, cancelled>>
           ELSE step(calls, outQ)
    /\ UNCHANGED <<options, input, splitterVars, partQ, parsed, yielded, setupVars, second,
                   aborted, storedError, produced>>

\* A generator that yields first and tells onSSEOutput of the value when it
\* is resumed.
iterator_read_value_YieldFirst ==
    /\ iter = "awaitRead"
    /\ storedError = "none"
    /\ outQ # <<>>
    /\ LET value == Head(outQ)
           settled == Append(log, Event("read value", value))
           calls == Append(settled, Event("onSSEOutput", value))
       IN  IF ~truthy(value)
           THEN /\ step(settled, Tail(outQ))
                /\ UNCHANGED yielded
           ELSE IF "onSSEOutput" \in throwing
           THEN /\ catch(calls, thrownBy("onSSEOutput"))
                /\ outQ' = Tail(outQ)
                /\ UNCHANGED <<yielded, cancelled>>
           ELSE /\ log' = settled \o <<Event("yield", value), Event("onSSEOutput", value)>>
                /\ yielded' = Append(yielded, value)
                /\ outQ' = Tail(outQ)
                /\ iter' = "suspendedYield"
                /\ outcome' = fulfilledValue
                /\ UNCHANGED <<reader, cancelled>>
    /\ UNCHANGED <<options, input, splitterVars, partQ, parsed, setupVars, second,
                   aborted, storedError, produced>>

\* A read that looks at the signal again when it resolves, and drops the
\* value in favour of the abort.
iterator_read_value_Recheck ==
    /\ iter = "awaitRead"
    /\ storedError = "none"
    /\ outQ # <<>>
    /\ LET value == Head(outQ)
           settled == Append(log, Event("read value", value))
           calls == Append(settled, Event("onSSEOutput", value))
       IN  IF aborted
           THEN /\ log' = Append(log, Event("cancel", "none"))
                /\ iter' = "awaitCancel"
                /\ outQ' = <<>>
                /\ cancelled' = TRUE
                /\ UNCHANGED <<yielded, reader, outcome>>
           ELSE IF ~truthy(value)
           THEN /\ step(settled, Tail(outQ))
                /\ UNCHANGED yielded
           ELSE IF "onSSEOutput" \in throwing
           THEN /\ catch(calls, thrownBy("onSSEOutput"))
                /\ outQ' = Tail(outQ)
                /\ UNCHANGED <<yielded, cancelled>>
           ELSE /\ log' = Append(calls, Event("yield", value))
                /\ yielded' = Append(yielded, value)
                /\ outQ' = Tail(outQ)
                /\ iter' = "suspendedYield"
                /\ outcome' = fulfilledValue
                /\ UNCHANGED <<reader, cancelled>>
    /\ UNCHANGED <<options, input, splitterVars, partQ, parsed, setupVars, second,
                   aborted, storedError, produced>>

\* reader.read() resolves with a value: if it is truthy, onSSEOutput?.(value)
\* and yield value; if not, the loop turns again.
iterator_read_value ==
    /\ iter = "awaitRead"
    /\ storedError = "none"
    /\ outQ # <<>>
    /\ LET value == Head(outQ)
           settled == Append(log, Event("read value", value))
           calls == Append(settled, Event("onSSEOutput", value))
       IN  IF ~truthy(value)
           THEN /\ step(settled, Tail(outQ))
                /\ UNCHANGED yielded
           ELSE IF "onSSEOutput" \in throwing
           THEN /\ catch(calls, thrownBy("onSSEOutput"))
                /\ outQ' = Tail(outQ)
                /\ UNCHANGED <<yielded, cancelled>>
           ELSE /\ log' = Append(calls, Event("yield", value))
                /\ yielded' = Append(yielded, value)
                /\ outQ' = Tail(outQ)
                /\ iter' = "suspendedYield"
                /\ outcome' = fulfilledValue
                /\ UNCHANGED <<reader, cancelled>>
    /\ UNCHANGED <<options, input, splitterVars, partQ, parsed, setupVars, second,
                   aborted, storedError, produced>>

\* A next() after a yield that calls onSSEStart again.
iterator_next_Restart ==
    /\ iter = "suspendedYield"
    /\ step(log \o <<Event("next", "suspendedYield"), Event("onSSEStart", "none")>>, outQ)
    /\ UNCHANGED <<options, input, splitterVars, partQ, parsed, yielded, setupVars, second,
                   aborted, storedError, produced>>

\* A next() that issues the read without testing the signal.
iterator_next_NoCheck ==
    /\ iter = "suspendedYield"
    /\ reader' = "locked"
    /\ outcome' = pending
    /\ log' = log \o <<Event("next", "suspendedYield"), Event("signal.aborted", FALSE),
                       Event("read", "none")>>
    /\ iter' = "awaitRead"
    /\ UNCHANGED <<options, input, splitterVars, partQ, parsed, outQ, yielded, setupVars, second,
                   aborted, storedError, cancelled, produced>>

\* The consumer's next() after a yield: the next turn of the loop.
iterator_next ==
    /\ iter = "suspendedYield"
    /\ step(Append(log, Event("next", "suspendedYield")), outQ)
    /\ UNCHANGED <<options, input, splitterVars, partQ, parsed, yielded, setupVars, second,
                   aborted, storedError, produced>>

\* A done that ends the generator without a word to onSSEComplete.
iterator_read_done_NoComplete ==
    /\ iter = "awaitRead"
    /\ storedError = "none"
    /\ outQ = <<>>
    /\ partQ = <<>>
    /\ flushed
    /\ break(Append(log, Event("read done", "none")))
    /\ UNCHANGED <<options, input, splitterVars, partQ, parsed, outQ, yielded, setupVars, second,
                   aborted, storedError, cancelled, produced>>

\* reader.read() resolves with done: processedStream closed once its source
\* closed and every stage finished.  onSSEComplete?.(), break.
iterator_read_done ==
    /\ iter = "awaitRead"
    /\ storedError = "none"
    /\ outQ = <<>>
    /\ partQ = <<>>
    /\ flushed
    /\ LET calls == log \o <<Event("read done", "none"), Event("onSSEComplete", "none")>>
       IN  IF "onSSEComplete" \in throwing
           THEN catch(calls, thrownBy("onSSEComplete"))
           ELSE break(calls)
    /\ UNCHANGED <<options, input, splitterVars, partQ, parsed, outQ, yielded, setupVars, second,
                   aborted, storedError, cancelled, produced>>

\* reader.read() rejects with the error processedStream is errored with.
iterator_read_error ==
    /\ iter = "awaitRead"
    /\ storedError # "none"
    /\ catch(Append(log, Event("read rejected", storedError)), storedError)
    /\ UNCHANGED <<options, input, splitterVars, partQ, parsed, outQ, yielded, setupVars, second,
                   aborted, storedError, cancelled, produced>>

\* An abort handled as a failure: after onSSEAbort the generator throws an
\* AbortError of its own into its catch block.
iterator_cancel_resolved_AsError ==
    /\ iter = "awaitCancel"
    /\ storedError = "none"
    /\ catch(Append(log, Event("onSSEAbort", "none")), "AbortError")
    /\ UNCHANGED <<options, input, splitterVars, partQ, parsed, outQ, yielded, setupVars, second,
                   aborted, storedError, cancelled, produced>>

\* await reader.cancel() resolves: onSSEAbort?.(), break.
iterator_cancel_resolved ==
    /\ iter = "awaitCancel"
    /\ storedError = "none"
    /\ LET calls == Append(log, Event("onSSEAbort", "none"))
       IN  IF "onSSEAbort" \in throwing
           THEN catch(calls, thrownBy("onSSEAbort"))
           ELSE break(calls)
    /\ UNCHANGED <<options, input, splitterVars, partQ, parsed, outQ, yielded, setupVars, second,
                   aborted, storedError, cancelled, produced>>

\* await reader.cancel() rejects: cancel() on an errored stream returns a
\* promise rejected with the stored error.
iterator_cancel_rejected ==
    /\ iter = "awaitCancel"
    /\ storedError # "none"
    /\ catch(Append(log, Event("cancel rejected", storedError)), storedError)
    /\ UNCHANGED <<options, input, splitterVars, partQ, parsed, outQ, yielded, setupVars, second,
                   aborted, storedError, cancelled, produced>>

\* A generator that takes a next() after its end as one more end of input.
iterator_next_completed_Again ==
    /\ iter = "completed"
    /\ Cardinality({i \in DOMAIN log : log[i].ev = "next" /\ log[i].arg = "completed"})
           < MaxLaterPulls
    /\ log' = log \o <<Event("next", "completed"), Event("onSSEComplete", "none")>>
    /\ outcome' = fulfilledDone
    /\ UNCHANGED <<options, input, splitterVars, partQ, parsed, outQ, iterVars, setupVars, second,
                   aborted, storedError, cancelled, produced>>

\* The consumer's next() on a generator that has completed: it resolves with
\* done, and no code of the generator runs.
iterator_next_completed ==
    /\ iter = "completed"
    /\ Cardinality({i \in DOMAIN log : log[i].ev = "next" /\ log[i].arg = "completed"})
           < MaxLaterPulls
    /\ log' = Append(log, Event("next", "completed"))
    /\ outcome' = fulfilledDone
    /\ UNCHANGED <<options, input, splitterVars, partQ, parsed, outQ, iterVars, setupVars, second,
                   aborted, storedError, cancelled, produced>>

\* A return() that cancels the reader before the lock is released.
iterator_return_Cancels ==
    /\ iter = "suspendedYield"
    /\ break(log \o <<Event("return", "none"), Event("cancel", "none")>>)
    /\ outQ' = IF storedError = "none" THEN <<>> ELSE outQ
    /\ cancelled' = (cancelled \/ storedError = "none")
    /\ UNCHANGED <<options, input, splitterVars, partQ, parsed, yielded, setupVars, second,
                   aborted, storedError, produced>>

\* The consumer's return() after a yield (a break out of for await): the
\* generator resumes with a return completion and runs the finally block.
iterator_return ==
    /\ iter = "suspendedYield"
    /\ break(Append(log, Event("return", "none")))
    /\ UNCHANGED <<options, input, splitterVars, partQ, parsed, outQ, yielded, setupVars, second,
                   aborted, storedError, cancelled, produced>>

----------------------------------------------------------------------------
(* What surrounds XStream: the custom transformStream, the source and the  *)
(* holder of the AbortController.                                          *)

\* The values a custom transformStream enqueues.
CustomOutputs ==
    { [kind |-> "string", val |-> <<"x">>],
      [kind |-> "string", val |-> <<>>],
      [kind |-> "number", val |-> <<"0">>] }

\* options.transformStream transforms the next k characters of the source
\* and enqueues output.
transformStream_transform(k, output) ==
    /\ ~defaultStages
    /\ flowing
    /\ ~flushed
    /\ k \in 1..Len(rest)
    /\ LET value == [kind |-> output.kind, val |-> output.val, at |-> Len(produced)]
       IN  /\ outQ' = enqueue(outQ, <<value>>)
           /\ produced' = Append(produced, value)
    /\ rest' = SubSeq(rest, k + 1, Len(rest))
    /\ UNCHANGED <<options, input, buffer, flushed, cutInside, cutInPart, cut, parts, partQ,
                   parsed, iterVars, setupVars, second, aborted, storedError, cancelled, log, outcome>>

\* The source has delivered everything and closed, and options.transformStream
\* closes processedStream.
transformStream_close ==
    /\ ~defaultStages
    /\ flowing
    /\ ~flushed
    /\ rest = <<>>
    /\ flushed' = TRUE
    /\ UNCHANGED <<options, input, rest, buffer, cutInside, cutInPart, cut, parts, partQ,
                   parsed, outQ, iterVars, setupVars, second, sessionVars>>

\* controller.error(e) in the source before it closed: the error goes down
\* the pipes, every stage drops what it holds and processedStream is errored.
source_error ==
    /\ flowing
    /\ ~flushed
    /\ storedError' = "source error"
    /\ partQ' = <<>>
    /\ outQ' = <<>>
    /\ UNCHANGED <<options, input, splitterVars, parsed, iterVars, setupVars, second,
                   aborted, cancelled, log, outcome, produced>>

\* An abort that reaches into a pending read: the listener it would take
\* cancels the reader at once.
signal_abort_Interrupts ==
    /\ pipeline = "built"
    /\ ~aborted
    /\ aborted' = TRUE
    /\ IF iter = "awaitRead"
       THEN /\ log' = log \o <<Event("abort", "none"), Event("cancel", "none")>>
            /\ iter' = "awaitCancel"
            /\ outQ' = IF storedError = "none" THEN <<>> ELSE outQ
            /\ cancelled' = (cancelled \/ storedError = "none")
       ELSE /\ log' = Append(log, Event("abort", "none"))
            /\ UNCHANGED <<iter, outQ, cancelled>>
    /\ UNCHANGED <<options, input, splitterVars, partQ, parsed, reader, yielded, setupVars, second,
                   storedError, outcome, produced>>

\* A generator that calls getReader inside its try block: the catch reports
\* the TypeError and the finally releases the reader held in this.reader.
second_start_InsideTry ==
    /\ pipeline = "built"
    /\ reader = "locked"
    /\ second.iter = "suspendedStart"
    /\ second' = [iter |-> "completed", outcome |-> fulfilledDone]
    /\ log' = log \o <<Event("onSSEError", "locked"), Event("releaseLock", "none")>>
    /\ reader' = "released"
    /\ UNCHANGED <<options, input, splitterVars, partQ, parsed, outQ, iter, yielded,
                   setupVars, aborted, storedError, cancelled, outcome, produced>>

\* The first next() of a second generator of processedStream while the first
\* session holds the lock: getReader throws its TypeError before the try
\* block is entered and before this.reader is assigned, so the generator
\* completes and the next() rejects with that TypeError.
second_start ==
    /\ pipeline = "built"
    /\ reader = "locked"
    /\ second.iter = "suspendedStart"
    /\ second' = [iter |-> "completed", outcome |-> rejected("locked")]
    /\ UNCHANGED <<options, input, splitterVars, partQ, parsed, outQ, iterVars,
                   setupVars, sessionVars>>

\* A later next() of the second consumer: the generator has completed.
second_next_completed ==
    /\ second.iter = "completed"
    /\ second.outcome # fulfilledDone
    /\ second' = [second EXCEPT !.outcome = fulfilledDone]
    /\ UNCHANGED <<options, input, splitterVars, partQ, parsed, outQ, iterVars,
                   setupVars, sessionVars>>

\* abortController.abort()
signal_abort ==
    /\ pipeline = "built"
    /\ ~aborted
    /\ aborted' = TRUE
    /\ log' = Append(log, Event("abort", "none"))
    /\ UNCHANGED <<options, input, splitterVars, partQ, parsed, outQ, iterVars, setupVars, second,
                   storedError, cancelled, outcome, produced>>

----------------------------------------------------------------------------
(* The inputs.                                                             *)

\* Every text of at most n characters of the alphabet.
Texts(alphabet, n) == UNION {[1..k -> alphabet] : k \in 0..n}

\* The option sets the pipeline is built with, each with the characters its
\* input texts are made of.
Setups ==
    { [options |-> [STREAM_SEPARATOR |-> undefined, PART_SEPARATOR |-> undefined,
                    KV_SEPARATOR |-> undefined],
       alphabet |-> {"a", ":", "\n"}],
      [options |-> [STREAM_SEPARATOR |-> <<"|">>, PART_SEPARATOR |-> <<"\r">>,
                    KV_SEPARATOR |-> <<"=">>],
       alphabet |-> {"a", "|", "\r", "="}],
      [options |-> [STREAM_SEPARATOR |-> undefined, PART_SEPARATOR |-> undefined,
                    KV_SEPARATOR |-> <<":", ":">>],
       alphabet |-> {"a", ":", "\n"}],
      [options |-> [STREAM_SEPARATOR |-> <<"a", "a">>, PART_SEPARATOR |-> undefined,
                    KV_SEPARATOR |-> undefined],
       alphabet |-> {"a", "b", ":"}] }

Init ==
    /\ \E setup \in Setups :
        /\ options = setup.options
        /\ input \in Texts(setup.alphabet, MaxLen)
    /\ rest = input
    /\ buffer = <<>>
    /\ flushed = FALSE
    /\ cutInside = FALSE
    /\ cutInPart = FALSE
    /\ cut = <<>>
    /\ parts = <<>>
    /\ partQ = <<>>
    /\ parsed = <<>>
    /\ outQ = <<>>
    /\ iter = "suspendedStart"
    /\ reader = "none"
    /\ yielded = <<>>
    /\ readableStream = "ReadableStream"
    /\ transformStream = "none"
    /\ throwing = {}
    /\ pipeline = "built"
    /\ thrown = noException
    /\ aborted = FALSE
    /\ storedError = "none"
    /\ cancelled = FALSE
    /\ log = <<>>
    /\ outcome = notCalled
    /\ produced = <<>>
    /\ second = [iter |-> "suspendedStart", outcome |-> notCalled]

Next ==
    \/ \E k \in 0..MaxLen : splitStream_transform(k)
    \/ splitStream_flush
    \/ splitPart_transform
    \/ iterator_start
    \/ iterator_read_value
    \/ iterator_next
    \/ iterator_read_done

Spec == Init /\ [][Next]_vars

\* splitPart alone, as the tests drive it: the source enqueues one part and
\* closes, and splitPart(separator, kvSeparator) transforms it.
PartSetups ==
    { [options |-> [STREAM_SEPARATOR |-> undefined, PART_SEPARATOR |-> undefined,
                    KV_SEPARATOR |-> undefined],
       alphabet |-> {"a", "b", ":", " ", "\n"}],
      [options |-> [STREAM_SEPARATOR |-> undefined, PART_SEPARATOR |-> <<"\r">>,
                    KV_SEPARATOR |-> <<":", ":">>],
       alphabet |-> {"a", ":", " ", "\r"}] }

InitPart ==
    /\ \E setup \in PartSetups :
        /\ options = setup.options
        /\ input \in Texts(setup.alphabet, MaxPartLen)
    /\ rest = <<>>
    /\ buffer = <<>>
    /\ flushed = TRUE
    /\ cutInside = FALSE
    /\ cutInPart = FALSE
    /\ cut = <<>>
    /\ parts = <<>>
    /\ partQ = <<[val |-> input, at |-> 0]>>
    /\ parsed = <<>>
    /\ outQ = <<>>
    /\ iter = "suspendedStart"
    /\ reader = "none"
    /\ yielded = <<>>
    /\ readableStream = "ReadableStream"
    /\ transformStream = "none"
    /\ throwing = {}
    /\ pipeline = "built"
    /\ thrown = noException
    /\ aborted = FALSE
    /\ storedError = "none"
    /\ cancelled = FALSE
    /\ log = <<>>
    /\ outcome = notCalled
    /\ produced = <<>>
    /\ second = [iter |-> "suspendedStart", outcome |-> notCalled]

NextPart == splitPart_transform

SpecPart == InitPart /\ [][NextPart]_vars

\* The whole of XStream: the call, the session of one consumer with every
\* callback registered and a signal passed, over either kind of pipeline.
IterSetups ==
    { [options |-> [STREAM_SEPARATOR |-> undefined, PART_SEPARATOR |-> undefined,
                    KV_SEPARATOR |-> undefined],
       transformStream |-> "custom",
       alphabet |-> {"a"}],
      [options |-> [STREAM_SEPARATOR |-> <<"a">>, PART_SEPARATOR |-> <<"\r">>,
                    KV_SEPARATOR |-> <<"=">>],
       transformStream |-> "custom",
       alphabet |-> {"a"}],
      [options |-> [STREAM_SEPARATOR |-> <<"|">>, PART_SEPARATOR |-> <<"\r">>,
                    KV_SEPARATOR |-> <<"=">>],
       transformStream |-> "none",
       alphabet |-> {"a", "|", "="}] }

\* What a caller may pass as options.readableStream.
ReadableStreamArguments == {"ReadableStream", "string", "undefined"}

\* The callbacks that throw: a session ends at the first callback that
\* throws, and only onSSEError is invoked after it, so one callback besides
\* onSSEError is enough.
ThrowingCallbacks == {S \in SUBSET Callbacks : Cardinality(S \ {"onSSEError"}) <= 1}

InitIter ==
    /\ readableStream \in ReadableStreamArguments
    /\ \E setup \in IterSetups :
        /\ options = setup.options
        /\ transformStream = setup.transformStream
        /\ input \in IF readableStream = "ReadableStream"
                     THEN Texts(setup.alphabet, MaxChunks)
                     ELSE {<<>>}
    /\ throwing \in ThrowingCallbacks
    /\ rest = input
    /\ buffer = <<>>
    /\ flushed = FALSE
    /\ cutInside = FALSE
    /\ cutInPart = FALSE
    /\ cut = <<>>
    /\ parts = <<>>
    /\ partQ = <<>>
    /\ parsed = <<>>
    /\ outQ = <<>>
    /\ iter = "none"
    /\ reader = "none"
    /\ yielded = <<>>
    /\ pipeline = "none"
    /\ thrown = noException
    /\ aborted = FALSE
    /\ storedError = "none"
    /\ cancelled = FALSE
    /\ log = <<>>
    /\ outcome = notCalled
    /\ produced = <<>>
    /\ second = [iter |-> "suspendedStart", outcome |-> notCalled]

NextIter ==
    \/ XStream
    \/ \E k \in 0..MaxChunks : splitStream_transform(k)
    \/ splitStream_flush
    \/ splitPart_transform
    \/ \E k \in 1..MaxChunks : \E output \in CustomOutputs :
           transformStream_transform(k, output)
    \/ transformStream_close
    \/ source_error
    \/ signal_abort
    \/ iterator_start
    \/ iterator_read_value
    \/ iterator_next
    \/ iterator_read_done
    \/ iterator_read_error
    \/ iterator_cancel_resolved
    \/ iterator_cancel_rejected
    \/ iterator_return
    \/ iterator_next_completed

SpecIter == InitIter /\ [][NextIter]_vars

\* SpecIter with a second consumer that iterates processedStream while the
\* first session holds the lock.
NextTwo ==
    \/ NextIter
    \/ second_start
    \/ second_next_completed

SpecTwo == InitIter /\ [][NextTwo]_vars

\* SpecIter with the steps that are bound to happen: the call of XStream, the
\* continuations of the generator once the promise it awaits has settled,
\* and a consumer that goes on with next() or leaves with return().  The
\* source, and with it the stages it feeds, may stall for ever, and nobody has
\* to abort.
FairIter ==
    /\ SpecIter
    /\ WF_vars(XStream)
    /\ WF_vars(iterator_start)
    /\ WF_vars(iterator_next \/ iterator_return)
    /\ WF_vars(iterator_read_value)
    /\ WF_vars(iterator_read_done)
    /\ WF_vars(iterator_read_error)
    /\ WF_vars(iterator_cancel_resolved)
    /\ WF_vars(iterator_cancel_rejected)

----------------------------------------------------------------------------
(* Reference notions the properties are stated with.                       *)

\* The 0-based positions where a delimiter-bounded piece of text starts.
PieceStarts(text, sep) ==
    {0} \cup {d + Len(sep) : d \in Delimiters(text, sep, 0)}

\* The piece that starts at position at: it runs to the next delimiter or,
\* after the last delimiter, to the end of the text.
PieceAt(text, sep, at) ==
    LET later == {d \in Delimiters(text, sep, 0) : d >= at}
        end == IF later = {} THEN Len(text)
               ELSE CHOOSE d \in later : \A e \in later : d <= e
    IN  slice(text, at, end)

\* The text after the last delimiter (the whole text when it has none).
Remainder(text, sep) ==
    LET starts == PieceStarts(text, sep)
    IN  sliceFrom(text, CHOOSE a \in starts : \A b \in starts : a >= b)

\* A set of numbers in increasing order.
RECURSIVE Ascending(_)
Ascending(S) ==
    IF S = {} THEN <<>>
    ELSE LET m == CHOOSE a \in S : \A b \in S : a <= b
         IN  <<m>> \o Ascending(S \ {m})

\* TRUE iff some character of s is not whitespace.
HasText(s) == \E i \in 1..Len(s) : s[i] \notin WhiteSpace

\* The starts of the pieces of text that are not whitespace-only, in order.
PartStarts(text, sep) ==
    Ascending({a \in PieceStarts(text, sep) : HasText(PieceAt(text, sep, a))})

\* The values of a queue or history of located items.
Values(q) == [i \in 1..Len(q) |-> q[i].val]

\* The positions of a queue or history of located items.
Positions(q) == [i \in 1..Len(q) |-> q[i].at]

\* What splitStream enqueues when the whole text arrives as one fragment and
\* the source then closes: one transform, then flush.
OneFragment(text, sep) ==
    LET pieces == split(text, sep)
        last == pieces[Len(pieces)]
    IN  SelectSeq(SubSeq(pieces, 1, Len(pieces) - 1), notBlank)
            \o (IF notBlank(last) THEN <<last>> ELSE <<>>)

\* The pipeline has run to its end: the consumer has read up to done.
Finished == flushed /\ partQ = <<>> /\ iter = "completed"

\* The lines of a part: its pieces between part separators, in order.
LinesOf(part, separator) ==
    LET starts == Ascending(PieceStarts(part, separator))
    IN  [i \in 1..Len(starts) |-> PieceAt(part, separator, starts[i])]

\* The text of a line before the first key-value delimiter.
FieldName(line, kvSeparator) == slice(line, 0, indexOf(line, kvSeparator))

\* A line is retained when it has a key-value delimiter and the text before
\* the first one is not blank.
Retained(line, kvSeparator) ==
    /\ indexOf(line, kvSeparator) # -1
    /\ HasText(FieldName(line, kvSeparator))

\* The lines of a part that are retained, by index.
RetainedLines(part, separator, kvSeparator) ==
    LET lines == LinesOf(part, separator)
    IN  {i \in 1..Len(lines) : Retained(lines[i], kvSeparator)}

\* The record a part parses to: a field per name of a retained line, its
\* value the trimmed text that starts skip characters after the start of the
\* first delimiter of the last retained line of that name.
FieldsOf(part, separator, kvSeparator, skip) ==
    LET lines == LinesOf(part, separator)
        kept == RetainedLines(part, separator, kvSeparator)
        named(name) == {i \in kept : FieldName(lines[i], kvSeparator) = name}
        lastOf(name) == CHOOSE i \in named(name) : \A j \in named(name) : i >= j
    IN  [name \in {FieldName(lines[i], kvSeparator) : i \in kept} |->
            trim(sliceFrom(lines[lastOf(name)],
                           indexOf(lines[lastOf(name)], kvSeparator) + skip))]

\* The starts of the parts of the input, and of those with a retained line.
InputParts == PartStarts(input, STREAM_SEPARATOR)

InputPartAt(at) == PieceAt(input, STREAM_SEPARATOR, at)

PartsWithFields ==
    SelectSeq(InputParts,
              LAMBDA a : RetainedLines(InputPartAt(a), PART_SEPARATOR,
                                       KV_SEPARATOR) # {})

----------------------------------------------------------------------------
(* Properties of splitStream.                                              *)

\* C1: whatever fragments the text was cut into (cuts inside a delimiter
\* included), once the source has closed the parts splitStream emitted are
\* the parts it emits when the text arrives as a single fragment.
ChunkBoundaryIndependence ==
    flushed => Values(parts) = OneFragment(input, STREAM_SEPARATOR)

\* C1 witness: a text of two parts was delivered with a fragment ending
\* inside the delimiter between them, and the source has closed.
ChunkBoundaryIndependence_Witness ==
    /\ flushed
    /\ cutInside
    /\ Len(parts) = 2

\* C5: once the source has closed, the text after the last delimiter has
\* been emitted as one part, the last one and character for character, if it
\* has a non-whitespace character, and not at all otherwise; no other part
\* lies in it, so nothing was emitted after the flush.
FlushEmitsRemainder ==
    flushed =>
        LET tail == Remainder(input, STREAM_SEPARATOR)
            from == Len(input) - Len(tail)
            inTail == {i \in 1..Len(parts) : parts[i].at + Len(parts[i].val) > from}
        IN  IF HasText(tail)
            THEN /\ inTail = {Len(parts)}
                 /\ parts[Len(parts)] = [val |-> tail, at |-> from]
            ELSE inTail = {}

\* C5 witness: the source closed on a text with no trailing delimiter whose
\* remainder has whitespace around its text, after an earlier part.
FlushEmitsRemainder_Witness ==
    /\ flushed
    /\ Len(parts) = 2
    /\ HasText(Remainder(input, STREAM_SEPARATOR))
    /\ trim(Remainder(input, STREAM_SEPARATOR)) # Remainder(input, STREAM_SEPARATOR)

\* TRUE iff text is a run of whitespace characters and delimiters (the
\* empty text included).
RECURSIVE OnlyBlankAndDelimiters(_, _)
OnlyBlankAndDelimiters(text, sep) ==
    \/ text = <<>>
    \/ /\ text # <<>>
       /\ text[1] \in WhiteSpace
       /\ OnlyBlankAndDelimiters(Tail(text), sep)
    \/ /\ occursAt(text, sep, 0)
       /\ OnlyBlankAndDelimiters(sliceFrom(text, Len(sep)), sep)

\* C6: on an input that is empty or made of whitespace and delimiters only,
\* splitStream emits no part and the pipeline no record, at any point of any
\* chunking.
BlankInputEmitsNothing ==
    OnlyBlankAndDelimiters(input, STREAM_SEPARATOR) =>
        /\ parts = <<>>
        /\ partQ = <<>>
        /\ parsed = <<>>
        /\ outQ = <<>>
        /\ yielded = <<>>

\* C6 witness: a run to the end over an input holding whitespace on both
\* sides of a delimiter that is not itself whitespace.
BlankInputEmitsNothing_Witness ==
    /\ Finished
    /\ OnlyBlankAndDelimiters(input, STREAM_SEPARATOR)
    /\ \E d \in Delimiters(input, STREAM_SEPARATOR, 0) : d > 0 /\ d + 1 < Len(input)
    /\ STREAM_SEPARATOR = <<"|">>

----------------------------------------------------------------------------
(* Properties of splitPart.                                                *)

\* C7: the event of every transformed part has exactly the field names of
\* its retained lines (a line without key-value delimiter, or with nothing
\* but whitespace before the first one, gives none); a part was emitted
\* exactly when it has a retained line, so no record is without fields.
OnlyRetainedLinesGiveFields ==
    /\ \A i \in 1..Len(parsed) :
           LET lines == LinesOf(parsed[i].part, PART_SEPARATOR)
               kept == RetainedLines(parsed[i].part, PART_SEPARATOR, KV_SEPARATOR)
           IN  /\ DOMAIN parsed[i].event
                      = {FieldName(lines[n], KV_SEPARATOR) : n \in kept}
               /\ parsed[i].emitted = (kept # {})
    /\ Len(yielded) + Len(outQ)
           = Cardinality({i \in 1..Len(parsed) : parsed[i].emitted})
    /\ \A r \in 1..Len(outQ) : DOMAIN outQ[r].val # {}

\* C7 witness: a part was transformed that has a line without delimiter, a
\* line with a blank key and a retained line.
OnlyRetainedLinesGiveFields_Witness ==
    \E i \in 1..Len(parsed) :
        LET lines == LinesOf(parsed[i].part, PART_SEPARATOR)
        IN  /\ \E n \in 1..Len(lines) : indexOf(lines[n], KV_SEPARATOR) = -1
            /\ \E n \in 1..Len(lines) :
                   /\ indexOf(lines[n], KV_SEPARATOR) # -1
                   /\ ~HasText(FieldName(lines[n], KV_SEPARATOR))
            /\ \E n \in 1..Len(lines) : Retained(lines[n], KV_SEPARATOR)
            /\ Len(outQ) = 1

\* C8 as stated: the event of every transformed part gives each field name
\* (the untrimmed text before the first delimiter of a retained line) the
\* trimmed text after the whole delimiter.
ValueFollowsWholeDelimiter ==
    \A i \in 1..Len(parsed) :
        parsed[i].event = FieldsOf(parsed[i].part, PART_SEPARATOR, KV_SEPARATOR,
                                   Len(KV_SEPARATOR))

\* What the parser makes of one line on its own.
LineAlone(line) == reducer(emptyEvent, line, KV_SEPARATOR)

\* C9: in the event of every transformed part, the value of a field is the
\* value the last retained line of that name carries.
LastWriteWins ==
    \A i \in 1..Len(parsed) :
        LET lines == LinesOf(parsed[i].part, PART_SEPARATOR)
            kept == RetainedLines(parsed[i].part, PART_SEPARATOR, KV_SEPARATOR)
        IN  \A name \in DOMAIN parsed[i].event :
                LET named == {n \in kept : FieldName(lines[n], KV_SEPARATOR) = name}
                    last == CHOOSE n \in named : \A m \in named : n >= m
                IN  /\ named # {}
                    /\ parsed[i].event[name] = LineAlone(lines[last])[name]

\* C9 witness: a part was transformed in which two retained lines have the
\* same name and different values.
LastWriteWins_Witness ==
    \E i \in 1..Len(parsed) :
        LET lines == LinesOf(parsed[i].part, PART_SEPARATOR)
        IN  \E n, m \in 1..Len(lines) :
                /\ n < m
                /\ Retained(lines[n], KV_SEPARATOR)
                /\ Retained(lines[m], KV_SEPARATOR)
                /\ FieldName(lines[n], KV_SEPARATOR) = FieldName(lines[m], KV_SEPARATOR)
                /\ LineAlone(lines[n]) # LineAlone(lines[m])

----------------------------------------------------------------------------
(* Properties of the default pipeline.                                     *)

YieldedInInputOrder ==
    /\ \A i, j \in 1..Len(yielded) : i < j => yielded[i].at < yielded[j].at
    /\ \A i \in 1..Len(yielded) :
           /\ \E n \in 1..Len(InputParts) : InputParts[n] = yielded[i].at
           /\ yielded[i].val = sseEvent(InputPartAt(yielded[i].at),
                                        PART_SEPARATOR, KV_SEPARATOR)

\* C3 witness: two records were yielded from a text that reached the
\* splitter cut inside one of its parts.
YieldedInInputOrder_Witness ==
    /\ Len(yielded) = 2
    /\ cutInPart

\* TRUE iff the len characters of the input from position at are bounded
\* by delimiters: one ends right before them (or the input starts there),
\* one starts right after them (or the input ends there), none is inside.
DelimiterBounded(at, len) ==
    /\ at >= 0 /\ at + len <= Len(input)
    /\ at = 0 \/ occursAt(input, STREAM_SEPARATOR, at - Len(STREAM_SEPARATOR))
    /\ at + len = Len(input) \/ occursAt(input, STREAM_SEPARATOR, at + len)
    /\ indexOf(slice(input, at, at + len), STREAM_SEPARATOR) = -1

\* C4: every part splitPart has transformed is one delimiter-bounded
\* stretch of the input; every record, waiting or yielded, holds the fields
\* of exactly one of them, and no two records come from the same one.
OneRecordOnePart ==
    LET records == yielded \o outQ
    IN  /\ \A i \in 1..Len(parsed) :
               /\ DelimiterBounded(parsed[i].at, Len(parsed[i].part))
               /\ parsed[i].part = slice(input, parsed[i].at,
                                         parsed[i].at + Len(parsed[i].part))
        /\ \A i, j \in 1..Len(parsed) : i # j => parsed[i].at # parsed[j].at
        /\ \A r \in 1..Len(records) :
               \E i \in 1..Len(parsed) :
                   /\ parsed[i].at = records[r].at
                   /\ records[r].val = sseEvent(parsed[i].part, PART_SEPARATOR,
                                                KV_SEPARATOR)
        /\ \A r, q \in 1..Len(records) : r # q => records[r].at # records[q].at

\* C4 witness: two records exist, from a text that reached the splitter cut
\* inside one of its parts and ended without a trailing delimiter.
OneRecordOnePart_Witness ==
    /\ flushed
    /\ cutInPart
    /\ Len(yielded) + Len(outQ) = 2
    /\ Remainder(input, STREAM_SEPARATOR) # <<>>

\* C10 as stated: at the end of the run the records are the parse of the
\* input with the three configured separators: events cut at
\* STREAM_SEPARATOR, lines at PART_SEPARATOR, name and value at the whole of
\* KV_SEPARATOR.
ConfiguredSeparatorsParse ==
    Finished =>
        /\ Positions(yielded) = PartsWithFields
        /\ \A i \in 1..Len(yielded) :
               yielded[i].val = FieldsOf(InputPartAt(yielded[i].at), PART_SEPARATOR,
                                         KV_SEPARATOR, Len(KV_SEPARATOR))

----------------------------------------------------------------------------
(* The session, read off the log.                                          *)

\* The places of the log where ev stands.
Indices(ev) == {i \in DOMAIN log : log[i].ev = ev}

\* How many times ev stands in the log.
Count(ev) == Cardinality(Indices(ev))

\* The session has not started, is running, or has ended.
NotStarted == iter \in {"none", "suspendedStart"}
Running == iter \in {"awaitRead", "awaitCancel", "suspendedYield"}
Ended == iter = "completed"

\* The terminal states of a session, by the one terminal callback it invoked.
Completed ==
    Ended /\ Count("onSSEComplete") = 1 /\ Count("onSSEAbort") = 0 /\ Count("onSSEError") = 0
Aborted ==
    Ended /\ Count("onSSEAbort") = 1 /\ Count("onSSEComplete") = 0 /\ Count("onSSEError") = 0
Errored ==
    Ended /\ Count("onSSEError") = 1 /\ Count("onSSEComplete") = 0 /\ Count("onSSEAbort") = 0

\* Every callback returns normally.
NoCallbackThrows == throwing = {}

----------------------------------------------------------------------------
(* The properties of XStream.                                              *)

\* C11: with a custom transform the splitter and the parser never run, and
\* once the session has completed the values yielded are exactly the values
\* the custom transform enqueued, in order.
CustomOutputIsIterated ==
    (transformStream = "custom" /\ NoCallbackThrows) =>
        /\ buffer = <<>> /\ parts = <<>> /\ partQ = <<>> /\ parsed = <<>>
        /\ Completed => yielded = produced

\* C12: a readableStream that is not a ReadableStream makes XStream throw a
\* TypeError whose message names options.readableStream, with no stage
\* built, nothing read from the source and no callback invoked; and XStream
\* throws for no other argument.
InvalidSourceFailsAtConstruction ==
    /\ readableStream # "ReadableStream" =>
        /\ pipeline = "none"
        /\ iter = "none" /\ reader = "none"
        /\ rest = input /\ outQ = <<>> /\ produced = <<>>
        /\ log = <<>>
        /\ thrown \in {noException, invalidReadableStream}
    /\ thrown # noException =>
        /\ readableStream # "ReadableStream"
        /\ thrown.name = "TypeError"
        /\ \E i \in DOMAIN thrown.message : thrown.message[i] = "options.readableStream"

\* C12 witness: XStream was called with a string for readableStream and threw.
InvalidSourceFailsAtConstruction_Witness ==
    /\ readableStream = "string"
    /\ thrown = invalidReadableStream
    /\ pipeline = "none"

\* C13: a session invokes at most one of onSSEComplete, onSSEAbort and
\* onSSEError, and at most once, whatever the callbacks do.
OneTerminalCallback ==
    Count("onSSEComplete") + Count("onSSEAbort") + Count("onSSEError") <= 1

\* C14: every call of onSSEOutput has a call of onSSEStart before it and
\* stands before every call of onSSEComplete.
StartThenOutputsThenComplete ==
    \A i \in Indices("onSSEOutput") :
        /\ \E j \in Indices("onSSEStart") : j < i
        /\ \A c \in Indices("onSSEComplete") : i < c

\* C14 witness: a session that started, put out two values and completed.
StartThenOutputsThenComplete_Witness ==
    /\ Count("onSSEStart") = 1
    /\ Count("onSSEOutput") = 2
    /\ Count("onSSEComplete") = 1
    /\ Ended

\* C15: onSSEStart is not called before the first next(); from the first
\* next() on it has been called exactly once, right after getReader and
\* before every test of the signal, every read and every cancel.
StartOnceOnFirstPull ==
    /\ NotStarted => Count("onSSEStart") = 0
    /\ ~NotStarted =>
        /\ Count("onSSEStart") = 1
        /\ \A i \in Indices("onSSEStart") :
            /\ i > 1 /\ log[i - 1].ev = "getReader"
            /\ \A j \in Indices("signal.aborted") \cup Indices("read") \cup Indices("cancel") :
                   i < j

\* C15 witness: the consumer is in its third next().
StartOnceOnFirstPull_Witness ==
    /\ Len(yielded) = 2
    /\ iter = "awaitRead"
    /\ Count("read") >= 3

\* C16: once a read was rejected, the consumer's next() is rejected with the
\* error of the read.
ReadErrorReachesConsumer ==
    (NoCallbackThrows /\ Count("read rejected") > 0) =>
        outcome = rejected(storedError)

\* C17: a rejected read ends the session with onSSEError called exactly once,
\* next in the log and with the error of the read, and with no call of
\* onSSEComplete or onSSEAbort after it.
ReadErrorReportedOnce ==
    \A i \in Indices("read rejected") :
        /\ log[i].arg = storedError
        /\ Ended
        /\ Count("onSSEError") = 1
        /\ log[i + 1].ev = "onSSEError"
        /\ log[i + 1].arg = log[i].arg
        /\ \A j \in Indices("onSSEComplete") \cup Indices("onSSEAbort") : j < i
        /\ Errored

\* C17 witness: the source failed after a value was yielded, and the next
\* read was rejected.
ReadErrorReportedOnce_Witness ==
    /\ Len(yielded) >= 1
    /\ Count("read rejected") = 1
    /\ Count("onSSEError") = 1

\* C18: the reader is locked while the session runs and has been released
\* exactly once when it has ended, by whichever path.
ReleasedExactlyOnce ==
    /\ Count("getReader") <= 1
    /\ Count("releaseLock") <= Count("getReader")
    /\ NotStarted => reader = "none" /\ Count("getReader") = 0
    /\ Running => reader = "locked" /\ Count("releaseLock") = 0
    /\ Ended => reader = "released" /\ Count("releaseLock") = 1

\* C18 witness: a session that yielded a value and then ended by abort, its
\* lock released.
ReleasedExactlyOnce_Witness ==
    /\ Len(yielded) >= 1
    /\ Count("onSSEAbort") = 1
    /\ Ended
    /\ reader = "released"

\* C19: wherever the signal is found aborted at the top of the loop, cancel
\* is called next and no value is put out after it; and once the session has
\* ended, onSSEAbort was called right after the cancel, exactly once, and
\* the session is Aborted.
AbortAtStepStart ==
    NoCallbackThrows =>
        \A i \in Indices("signal.aborted") :
            log[i].arg = TRUE =>
                /\ log[i + 1].ev = "cancel"
                /\ \A j \in Indices("onSSEOutput") : j < i
                /\ Ended =>
                    /\ Len(log) >= i + 2
                    /\ log[i + 2].ev = "onSSEAbort"
                    /\ Count("onSSEAbort") = 1
                    /\ Aborted

\* C20: a session whose signal was aborted before the first next() ends
\* with nothing yielded, no call of onSSEOutput and exactly one call of
\* onSSEAbort.
AbortBeforeFirstPull ==
    (/\ NoCallbackThrows
     /\ Ended
     /\ \E a \in Indices("abort") : \A g \in Indices("getReader") : a < g) =>
        /\ yielded = <<>>
        /\ Count("onSSEOutput") = 0
        /\ Count("onSSEAbort") = 1

NormalCompletion ==
    /\ \A i \in Indices("read done") :
        /\ Len(log) > i
        /\ log[i + 1].ev = "onSSEComplete"
        /\ Count("onSSEComplete") = 1
        /\ \A j \in Indices("onSSEOutput") : j < i
        /\ Ended
        /\ "onSSEComplete" \notin throwing =>
            /\ Completed
            /\ outcome = fulfilledDone
    /\ \A c \in Indices("onSSEComplete") : c > 1 /\ log[c - 1].ev = "read done"

\* C22 witness: the default pipeline read to its end, one record yielded and
\* the signal never aborted.
NormalCompletion_Witness ==
    /\ transformStream = "none"
    /\ ~aborted
    /\ Len(yielded) = 1
    /\ Count("read done") = 1
    /\ Completed

\* C23: every value a read resolved with was handed to onSSEOutput next and
\* is among the values yielded.
NoValueSkipped ==
    NoCallbackThrows =>
        \A i \in Indices("read value") :
            /\ Len(log) > i
            /\ log[i + 1].ev = "onSSEOutput"
            /\ log[i + 1].arg = log[i].arg
            /\ \E k \in DOMAIN yielded : yielded[k] = log[i].arg

\* The arguments onSSEOutput was called with, in order.
OutputArguments ==
    LET calls == SelectSeq(log, LAMBDA e : e.ev = "onSSEOutput")
    IN  [k \in DOMAIN calls |-> calls[k].arg]

\* C24: each yield comes right after the call of onSSEOutput with the value
\* yielded, each call of onSSEOutput that returns is followed by the yield of
\* its argument, and so, with an onSSEOutput that returns, the arguments of
\* its calls are at every moment the values yielded, in order.
OutputOncePerYield ==
    /\ \A j \in Indices("yield") :
        /\ j > 1
        /\ log[j - 1].ev = "onSSEOutput"
        /\ log[j - 1].arg = log[j].arg
    /\ \A i \in Indices("onSSEOutput") :
        "onSSEOutput" \notin throwing =>
            /\ Len(log) > i
            /\ log[i + 1].ev = "yield"
    /\ Count("yield") = Len(yielded)
    /\ "onSSEOutput" \notin throwing => OutputArguments = yielded

\* C24 witness: the consumer holds two values, each told to onSSEOutput.
OutputOncePerYield_Witness ==
    /\ iter = "suspendedYield"
    /\ Len(yielded) = 2
    /\ Len(OutputArguments) = 2

\* The calls of the callbacks, in order.
CallbackCalls == SelectSeq(log, LAMBDA e : e.ev \in Callbacks)

\* The session ended by one of its terminal paths, not by the consumer's
\* return().
Terminal == Ended /\ Count("return") = 0

\* C25: no step from a terminal state yields a value, issues a read or a
\* cancel, takes the reader again or calls a callback, and the next() it may
\* serve resolves with done.
TerminalIsSticky ==
    [][Terminal =>
          /\ iter' = "completed"
          /\ yielded' = yielded
          /\ reader' = reader
          /\ Count("read")' = Count("read")
          /\ Count("cancel")' = Count("cancel")
          /\ Count("getReader")' = Count("getReader")
          /\ CallbackCalls' = CallbackCalls
          /\ outcome' # outcome => outcome' = fulfilledDone
          /\ Count("next")' # Count("next") => outcome' = fulfilledDone]_vars

\* C25 witness: next() was called on a session that had ended Errored while
\* its stream still held nothing but the error.
TerminalIsSticky_Witness ==
    /\ Errored
    /\ \E i \in Indices("next") : log[i].arg = "completed"
    /\ outcome = fulfilledDone

\* The pending read has nothing to resolve with: processedStream holds no
\* value and is neither closed nor errored.
Stalled ==
    /\ iter = "awaitRead"
    /\ outQ = <<>>
    /\ storedError = "none"
    /\ ~(flushed /\ partQ = <<>>)

\* C26, as claimed: an abort during a stalled read leads to the end of the
\* session, whatever the source does.
AbortEndsStalledPull == (Stalled /\ aborted) ~> Ended

\* C26, amended: a step taken while the read is stalled leaves the generator
\* in that read, with no callback called, no cancel issued and nothing
\* yielded; an abort is such a step and leaves the read stalled.
StalledPullStaysBlocked ==
    [][Stalled =>
          /\ iter' = "awaitRead"
          /\ CallbackCalls' = CallbackCalls
          /\ Count("cancel")' = Count("cancel")
          /\ yielded' = yielded
          /\ reader' = "locked"
          /\ aborted' # aborted => Stalled']_vars

\* C26 witness: the signal is aborted and the read issued after the first
\* value is still stalled.
StalledPullStaysBlocked_Witness ==
    /\ Stalled
    /\ aborted
    /\ Len(yielded) = 1

\* C27: whatever the input and its fragments, processedStream is never
\* errored, no read is rejected and onSSEError is not called; every part
\* enqueued has text, every part parsed gives exactly the fields of its
\* retained lines; a session that has ended is Completed, with done for the
\* consumer.
MalformedInputIsDiscarded ==
    /\ storedError = "none"
    /\ Count("read rejected") = 0
    /\ Count("onSSEError") = 0
    /\ \A i \in DOMAIN parts : HasText(parts[i].val)
    /\ \A i \in DOMAIN parsed :
        LET lines == LinesOf(parsed[i].part, PART_SEPARATOR)
            kept == RetainedLines(parsed[i].part, PART_SEPARATOR, KV_SEPARATOR)
        IN  /\ DOMAIN parsed[i].event = {FieldName(lines[k], KV_SEPARATOR) : k \in kept}
            /\ parsed[i].emitted <=> kept # {}
    /\ Ended => Completed /\ outcome = fulfilledDone

\* C27 witness: a session that ended Completed with a record yielded, over
\* an input with a part that has a line, not empty, that is not retained.
MalformedInputIsDiscarded_Witness ==
    /\ Completed
    /\ Len(yielded) >= 1
    /\ \E i \in DOMAIN parsed :
        LET lines == LinesOf(parsed[i].part, PART_SEPARATOR)
        IN  \E k \in DOMAIN lines :
                lines[k] # <<>> /\ ~Retained(lines[k], KV_SEPARATOR)

\* The ways a read settles.
Settlements == {"read value", "read done", "read rejected"}

\* C28: the signal is tested only at the start of a step (after onSSEStart,
\* after the consumer's next(), after a value that is passed over), and the
\* test finds it aborted iff abort() came before; cancel is called only right
\* after a test that found it aborted, and onSSEAbort only right after
\* cancel; and once a read is issued, the next thing the generator meets is
\* the value, the done or the error of that read, abort() or not.
AbortWaitsForStepStart ==
    /\ \A k \in Indices("signal.aborted") :
        /\ k > 1
        /\ log[k - 1].ev \in {"onSSEStart", "next", "read value"}
        /\ log[k].arg <=> \E a \in Indices("abort") : a < k
        /\ Len(log) > k
        /\ log[k + 1].ev = IF log[k].arg THEN "cancel" ELSE "read"
    /\ \A c \in Indices("cancel") : log[c - 1].ev = "signal.aborted"
    /\ \A a \in Indices("onSSEAbort") : log[a - 1].ev = "cancel"
    /\ \A r \in Indices("read") :
        \A j \in (r + 1)..Len(log) :
            (\A m \in (r + 1)..(j - 1) : log[m].ev = "abort") =>
                log[j].ev \in Settlements \cup {"abort"}

\* C28 witness: abort() came while a read was pending, the read resolved
\* with a value that was yielded, and the next step aborted the session.
AbortWaitsForStepStart_Witness ==
    /\ \E a \in Indices("abort") :
        /\ a > 1 /\ log[a - 1].ev = "read"
        /\ Len(log) > a + 2
        /\ log[a + 1].ev = "read value"
        /\ log[a + 3].ev = "yield"
    /\ Count("onSSEAbort") = 1
    /\ Ended

\* How much of the input splitStream has received.
Received == Len(input) - Len(rest)

\* The starts of the pieces of the input whose closing delimiter splitStream
\* has received in full.
ClosedPieces ==
    {a \in PieceStarts(input, STREAM_SEPARATOR) :
        \E d \in Delimiters(input, STREAM_SEPARATOR, 0) :
            d >= a /\ d + Len(STREAM_SEPARATOR) <= Received}

\* C29: every part splitStream enqueued, by transform or by flush, has a
\* character that is not whitespace; no piece of the input was enqueued
\* twice; and every piece closed by a delimiter received so far that has
\* such a character was enqueued, whole, exactly once.
SplitterEmitsOnlyText ==
    /\ \A i \in DOMAIN parts : parts[i].val # <<>> /\ trim(parts[i].val) # <<>>
    /\ \A i, j \in DOMAIN parts : parts[i].at = parts[j].at => i = j
    /\ \A a \in ClosedPieces :
        HasText(InputPartAt(a)) =>
            Cardinality({i \in DOMAIN parts :
                            parts[i].at = a /\ parts[i].val = InputPartAt(a)}) = 1
    /\ \A a \in ClosedPieces :
        ~HasText(InputPartAt(a)) => \A i \in DOMAIN parts : parts[i].at # a

\* C29 witness: after the flush, over an input with a whitespace-only piece
\* between two delimiters, a piece with text and a whitespace-only remainder.
SplitterEmitsOnlyText_Witness ==
    /\ flushed
    /\ Len(parts) = 1
    /\ \E a \in ClosedPieces : InputPartAt(a) # <<>> /\ ~HasText(InputPartAt(a))
    /\ Remainder(input, STREAM_SEPARATOR) # <<>>
    /\ ~HasText(Remainder(input, STREAM_SEPARATOR))

\* The text splitStream has received.
ReceivedText == slice(input, 0, Received)

\* The text after the last place where sep occurs in text (the whole text
\* when it occurs nowhere).
AfterLastOccurrence(text, sep) ==
    LET hits == {i \in 0..Len(text) : occursAt(text, sep, i)}
    IN  IF hits = {} THEN text
        ELSE sliceFrom(text, (CHOOSE i \in hits : \A j \in hits : i >= j) + Len(sep))

\* C30, as claimed: the buffer is the received text after the last
\* occurrence of the delimiter in it, and holds no delimiter.
BufferFollowsLastOccurrence ==
    /\ buffer = AfterLastOccurrence(ReceivedText, STREAM_SEPARATOR)
    /\ indexOf(buffer, STREAM_SEPARATOR) = -1

\* C30, amended: the buffer is the received text after the last delimiter
\* found scanning it left to right, each search resuming after the match
\* before, and holds no delimiter.
BufferFollowsLastDelimiter ==
    /\ buffer = Remainder(ReceivedText, STREAM_SEPARATOR)
    /\ indexOf(buffer, STREAM_SEPARATOR) = -1
    /\ \A i \in 0..Len(buffer) : ~occursAt(buffer, STREAM_SEPARATOR, i)

\* C30 witness: a fragment ended inside a part, the received text has a
\* delimiter, and the buffer holds text that came after it.
BufferFollowsLastDelimiter_Witness ==
    /\ ~flushed
    /\ cutInPart
    /\ Delimiters(ReceivedText, STREAM_SEPARATOR, 0) # {}
    /\ buffer # <<>>
    /\ buffer # ReceivedText

\* pieces.join(sep)
RECURSIVE Join(_, _)
Join(pieces, sep) ==
    IF pieces = <<>> THEN <<>>
    ELSE IF Len(pieces) = 1 THEN pieces[1]
    ELSE pieces[1] \o sep \o Join(Tail(pieces), sep)

\* C31: the pieces transform has cut, the blank ones included, and then the
\* buffer, joined with the delimiter, are the text received; the parts
\* enqueued before the flush are the pieces cut that are not blank, in order;
\* and every part enqueued is the text of the input at its place.
SplitterConservation ==
    /\ Join(Append(cut, buffer), STREAM_SEPARATOR) = ReceivedText
    /\ ~flushed => Values(parts) = SelectSeq(cut, notBlank)
    /\ flushed => Values(parts) = SelectSeq(Append(cut, buffer), notBlank)
    /\ \A i \in DOMAIN parts :
        parts[i].val = slice(input, parts[i].at, parts[i].at + Len(parts[i].val))
    /\ \A i, j \in DOMAIN parts :
        i < j => parts[i].at + Len(parts[i].val) + Len(STREAM_SEPARATOR) <= parts[j].at

\* C31 witness: a whitespace-only piece and a piece with text were cut, and
\* text is left in the buffer.
SplitterConservation_Witness ==
    /\ ~flushed
    /\ Len(cut) = 2
    /\ Len(parts) = 1
    /\ \E i \in DOMAIN cut : cut[i] # <<>> /\ ~notBlank(cut[i])
    /\ buffer # <<>>

\* C32: a return() comes after a yield, with at most abort() between them;
\* releaseLock is the next call and the only one of its kind, the generator
\* has ended with done, no terminal callback and no cancel stand anywhere in
\* the log, processedStream is not cancelled, and all that follows in the
\* log is abort() and next() on the generator that has ended.
EarlyExitReleasesOnly ==
    \A r \in Indices("return") :
        /\ \E y \in Indices("yield") :
            y < r /\ \A m \in (y + 1)..(r - 1) : log[m].ev = "abort"
        /\ Len(log) > r
        /\ log[r + 1].ev = "releaseLock"
        /\ Count("releaseLock") = 1
        /\ reader = "released"
        /\ Ended
        /\ Count("onSSEComplete") = 0
        /\ Count("onSSEAbort") = 0
        /\ Count("onSSEError") = 0
        /\ Count("cancel") = 0
        /\ ~cancelled
        /\ \A m \in (r + 2)..Len(log) : log[m].ev \in {"abort", "next"}
        /\ outcome = fulfilledDone

\* C32 witness: the consumer left after the first value, with the signal
\* aborted and a value still waiting in processedStream.
EarlyExitReleasesOnly_Witness ==
    /\ Count("return") = 1
    /\ Len(yielded) = 1
    /\ aborted
    /\ outQ # <<>>
    /\ reader = "released"

\* C33: at most one value is yielded after abort(); a value yielded after
\* abort() is the value of the read that was pending when abort() came, met
\* right after it; and when no read was pending at abort(), nothing is
\* yielded after it.
AbortBoundsYields ==
    \A a \in Indices("abort") :
        LET later == {y \in Indices("yield") : y > a}
            inFlight == a > 1 /\ log[a - 1].ev = "read"
        IN  /\ Cardinality(later) <= 1
            /\ ~inFlight => later = {}
            /\ \A y \in later :
                /\ y = a + 3
                /\ log[a + 1].ev = "read value"
                /\ log[y].arg = log[a + 1].arg
            /\ Len(yielded) = Count("yield")

\* C33 witness: one value was yielded before abort(), abort() came during
\* the second read, that read's value was yielded too, and the step after
\* it cancelled the reader of a stream that had not ended.
AbortBoundsYields_Witness ==
    /\ Count("yield") = 2
    /\ \E a \in Indices("abort") :
        /\ log[a - 1].ev = "read"
        /\ \E y \in Indices("yield") : y < a
        /\ \E y \in Indices("yield") : y > a
    /\ Count("cancel") = 1
    /\ cancelled

\* C34: the first next() of a second generator is answered only while the
\* first session holds the lock, by a rejection with getReader's TypeError
\* that completes that generator; the step adds nothing to the log (no
\* callback, no releaseLock, no cancel), leaves the reader locked and
\* leaves the first generator, its consumer's promise, what it yielded and
\* processedStream as they were; and a step of the second consumer after
\* that changes nothing of the first session either.
SecondSessionFailsAlone ==
    [][second' # second =>
          /\ second.iter = "suspendedStart" =>
                /\ reader = "locked"
                /\ iter \in {"awaitRead", "suspendedYield", "awaitCancel"}
                /\ second' = [iter |-> "completed", outcome |-> rejected("locked")]
          /\ UNCHANGED <<log, reader, iter, yielded, outcome, outQ, storedError,
                         cancelled, aborted>>
          /\ UNCHANGED <<options, input, splitterVars, partQ, parsed, setupVars, produced>>
      ]_vars

\* C34 witness: the second consumer's next() was rejected, and the first
\* session, two values yielded, still holds the lock and awaits a read.
SecondSessionFailsAlone_Witness ==
    /\ second = [iter |-> "completed", outcome |-> rejected("locked")]
    /\ reader = "locked"
    /\ iter = "awaitRead"
    /\ Len(yielded) = 2
    /\ Count("releaseLock") = 0

====
